---------------------------- MODULE Spec2Model ----------------------------
(***************************************************************************)
(* A model of the context orchestrator (package col):                      *)
(*   - col/core/merger.py        the append-only, deduplicating merge      *)
(*   - col/core/orchestrator.py  run_completion and the run artifact       *)
(*   - col/core/prompt_builder.py, col/schema.py, col/storage.py           *)
(*   - col/cli.py                the commands init, run and apply          *)
(*                                                                         *)
(* Python objects live in two heaps: lheap holds the list objects, oheap   *)
(* the Context / SuggestedContextUpdates objects whose attributes are      *)
(* references into lheap.  A reference is an index into its heap.          *)
(***************************************************************************)
EXTENDS Integers, Sequences, FiniteSets, TLC

VARIABLES
    \* ---- merge_updates (SpecMerge) ----
    lheap,      \* the list objects: a sequence of sequences of strings
    oheap,      \* the model objects: records of a goal and list references
    inC,        \* the value of the Context argument when the call was made
    inU,        \* the value of the SuggestedContextUpdates argument, likewise
    mpc,        \* where the caller of merge_updates is
    mret,       \* what merge_updates(c, u) returned: (new_context, changes)
    mret2,      \* what merge_updates(mret[0], u) returned
    \* ---- run_completion (SpecRun) ----
    rpc,        \* where run_completion is
    rargs,      \* its arguments: context, instruction, output_path
    rloc,       \* its local variables
    rresult,    \* how the last call ended: a return value or an exception
    rlog,       \* what the current call has done so far, in order
    outFiles,   \* the files at the output paths
    runsDir,    \* the files of the directory .col/runs, by file name
    clock,      \* the wall clock
    nruns,      \* the calls of run_completion made so far
    faults,     \* the file writes that have failed so far
    \* ---- the commands of col/cli.py (SpecCli) ----
    ctxFile,    \* the context file on disk
    ctxTmp,     \* the temporary file save_context writes next to it
    cexit,      \* the command under way, or how the last command ended
    ctxLoaded,     \* what load_context made of the context file's text
    \* ---- build_prompt (SpecRender) ----
    rendered    \* the calls of build_prompt made so far: argument and result

mergeVars == <<lheap, oheap, inC, inU, mpc, mret, mret2>>

runVars == <<rpc, rargs, rloc, rresult, rlog, outFiles, runsDir, clock, nruns, faults>>

cliVars == <<ctxFile, ctxTmp, cexit, ctxLoaded>>

vars == <<lheap, oheap, inC, inU, mpc, mret, mret2,
          rpc, rargs, rloc, rresult, rlog, outFiles, runsDir, clock, nruns, faults,
          ctxFile, ctxTmp, cexit, ctxLoaded, rendered>>

-----------------------------------------------------------------------------
(* Bounds of the model *)

\* the total number of list items a Context argument holds over its five lists
MaxCtxItems == 2
\* the total number of list items a SuggestedContextUpdates argument holds
MaxUpdItems == 2
\* the calls of run_completion in one behaviour
MaxRuns == 2
\* the milliseconds the wall clock advances in one behaviour
MaxClockMs == 1
\* the file writes that fail in one behaviour
MaxWriteFailures == 1
\* the calls of build_prompt in one behaviour
MaxRenders == 2

\* the strings a Context's lists are drawn from
CtxItems == {"f1", "f2"}
\* the strings the suggested updates are drawn from: "f2" collides with the
\* context's strings, "f3" is new
UpdItems == {"f2", "f3"}
\* the goals a Context is given at creation
Goals == {"", "ship it"}

-----------------------------------------------------------------------------
(* Helpers on sequences *)

Range(s) == {s[i] : i \in 1..Len(s)}

IsPrefix(s, t) == Len(s) <= Len(t) /\ SubSeq(t, 1, Len(s)) = s

NoDuplicates(s) == \A i, j \in 1..Len(s) : s[i] = s[j] => i = j

RECURSIVE SeqsOfLen(_, _)
SeqsOfLen(S, n) ==
    IF n = 0 THEN {<<>>}
    ELSE {Append(s, x) : s \in SeqsOfLen(S, n - 1), x \in S}

SeqsUpTo(S, n) == UNION {SeqsOfLen(S, k) : k \in 0..n}

\* every way to fill n lists from S with at most budget items in total
RECURSIVE ListTuples(_, _, _)
ListTuples(S, n, budget) ==
    IF n = 0 THEN {<<>>}
    ELSE UNION {{Append(rest, s) : rest \in ListTuples(S, n - 1, budget - Len(s))}
                : s \in SeqsUpTo(S, budget)}

-----------------------------------------------------------------------------
(* col/schema.py *)

\* the five list fields, in the order Context declares them
ListFields == <<"constraints", "facts", "decisions", "tool_outputs", "open_questions">>

ListFieldSet == Range(ListFields)

\* a Context as a value: the goal and the five lists themselves
ContextValue(goal, t) ==
    [goal |-> goal, constraints |-> t[1], facts |-> t[2], decisions |-> t[3],
     tool_outputs |-> t[4], open_questions |-> t[5]]

\* a SuggestedContextUpdates as a value: it has no goal
UpdatesValue(t) ==
    [facts |-> t[1], decisions |-> t[2], constraints |-> t[3],
     tool_outputs |-> t[4], open_questions |-> t[5]]

CtxInputs == {ContextValue(g, t) : g \in Goals, t \in ListTuples(CtxItems, 5, MaxCtxItems)}

UpdInputs == {UpdatesValue(t) : t \in ListTuples(UpdItems, 5, MaxUpdItems)}


\* the object a Context value becomes: its lists are stored in lh from base + 1
ContextObject(v, base) ==
    [goal |-> v.goal, constraints |-> base + 1, facts |-> base + 2,
     decisions |-> base + 3, tool_outputs |-> base + 4, open_questions |-> base + 5]

UpdatesObject(base) ==
    [facts |-> base + 1, decisions |-> base + 2, constraints |-> base + 3,
     tool_outputs |-> base + 4, open_questions |-> base + 5]

\* the value held by the Context object o under the list heap lh
ContextOf(lh, o) ==
    [goal |-> o.goal, constraints |-> lh[o.constraints], facts |-> lh[o.facts],
     decisions |-> lh[o.decisions], tool_outputs |-> lh[o.tool_outputs],
     open_questions |-> lh[o.open_questions]]

\* the value held by the SuggestedContextUpdates object o under lh
UpdatesOf(lh, o) ==
    [facts |-> lh[o.facts], decisions |-> lh[o.decisions],
     constraints |-> lh[o.constraints], tool_outputs |-> lh[o.tool_outputs],
     open_questions |-> lh[o.open_questions]]

\* where the caller keeps its two arguments in oheap
ArgRefs == [c |-> 1, u |-> 2]

-----------------------------------------------------------------------------
(* col/core/merger.py: _dedupe_append *)

\* a new list object holding items: the heap after, and the new reference
NewList(lh, items) == [heap |-> Append(lh, items), ref |-> Len(lh) + 1]

\* existing_set = set(existing)
SetOfNoExisting(lh, existing) == {}

SetOf(lh, existing) == Range(lh[existing])

\* result = list(existing): a copy, so that appending leaves existing alone
ListCopyAlias(lh, existing) == [heap |-> lh, ref |-> existing]

RECURSIVE FirstOccurrences(_)
FirstOccurrences(s) ==
    IF s = <<>> THEN <<>>
    ELSE LET front == FirstOccurrences(SubSeq(s, 1, Len(s) - 1))
             last  == s[Len(s)]
         IN IF last \in Range(front) THEN front ELSE Append(front, last)

ListCopyUnique(lh, existing) == NewList(lh, FirstOccurrences(lh[existing]))

ListCopy(lh, existing) == NewList(lh, lh[existing])

\* a test that takes every item for a new one
IsNewAlways(item, existing_set) == TRUE

\* if item not in existing_set
IsNew(item, existing_set) == item \notin existing_set

\* existing_set.add(item)
SetAddForgotten(existing_set, item) == existing_set

SetAdd(existing_set, item) == existing_set \cup {item}

\* the for loop over new_items, from its i-th item on
RECURSIVE DedupeLoop(_, _, _, _, _, _)
DedupeLoop(lh, new_items, i, existing_set, result, added) ==
    IF i > Len(lh[new_items])
    THEN [heap |-> lh, result |-> result, added |-> added]
    ELSE LET item == lh[new_items][i]
         IN IF IsNew(item, existing_set)
            THEN DedupeLoop(
                    [lh EXCEPT ![result] = Append(@, item), ![added] = Append(@, item)],
                    new_items, i + 1, SetAdd(existing_set, item), result, added)
            ELSE DedupeLoop(lh, new_items, i + 1, existing_set, result, added)

\* _dedupe_append(existing, new_items) under the heap lh: the heap after the
\* call and the references of the two lists it returns
DedupeAppend(lh, existing, new_items) ==
    LET existing_set == SetOf(lh, existing)
        a            == NewList(lh, <<>>)
        r            == ListCopy(a.heap, existing)
    IN DedupeLoop(r.heap, new_items, 1, existing_set, r.ref, a.ref)

-----------------------------------------------------------------------------
(* col/core/merger.py: merge_updates *)

\* the dict d with d[key] = value set
DictSet(d, key, value) ==
    [k \in DOMAIN d \cup {key} |-> IF k = key THEN value ELSE d[k]]

EmptyDict == [k \in {} |-> <<>>]

\* d.get(key, [])
DictGet(d, key) == IF key \in DOMAIN d THEN d[key] ELSE <<>>

\* if added_x: changes["x"] = added_x
RecordChangeAlways(changes, field, added_items) == DictSet(changes, field, added_items)

RecordChange(changes, field, added_items) ==
    IF added_items # <<>> THEN DictSet(changes, field, added_items) ELSE changes

\* goal=context.goal in the construction of the new Context
MergedGoalDefault(context) == ""

MergedGoal(context) == context.goal

\* merge_updates(context, updates), the two arguments being references into
\* oh: the two heaps after the call, the reference of the new Context and the
\* changes summary (a dict from field names to the lists of added items)
MergeUpdates(lh, oh, context, updates) ==
    LET c  == oh[context]
        u  == oh[updates]
        f  == DedupeAppend(lh, c.facts, u.facts)
        ch1 == RecordChange(EmptyDict, "facts", f.heap[f.added])
        d  == DedupeAppend(f.heap, c.decisions, u.decisions)
        ch2 == RecordChange(ch1, "decisions", d.heap[d.added])
        k  == DedupeAppend(d.heap, c.constraints, u.constraints)
        ch3 == RecordChange(ch2, "constraints", k.heap[k.added])
        t  == DedupeAppend(k.heap, c.tool_outputs, u.tool_outputs)
        ch4 == RecordChange(ch3, "tool_outputs", t.heap[t.added])
        q  == DedupeAppend(t.heap, c.open_questions, u.open_questions)
        ch5 == RecordChange(ch4, "open_questions", q.heap[q.added])
        new_context ==
            [goal |-> MergedGoal(c), constraints |-> k.result, facts |-> f.result,
             decisions |-> d.result, tool_outputs |-> t.result,
             open_questions |-> q.result]
    IN [lheap |-> q.heap, oheap |-> Append(oh, new_context),
        ctx |-> Len(oh) + 1, changes |-> ch5]

NoReturn == [ctx |-> 0, changes |-> EmptyDict]

-----------------------------------------------------------------------------
(* Properties of merge_updates, checked under SpecMerge *)

\* merge_updates(c, u) has returned
Merged == mpc \in {"merged", "again"}

\* the Context that merge_updates(c, u) returned, as a value
NewContext == ContextOf(lheap, oheap[mret.ctx])

\* the Context that merge_updates(c1, u) returned, as a value
NewContext2 == ContextOf(lheap, oheap[mret2.ctx])

\* the candidates that are not among the existing items, each once, in the
\* order of their first occurrence
ExpectedAdded(existing, candidates) ==
    LET NotExisting(x) == x \notin Range(existing)
    IN FirstOccurrences(SelectSeq(candidates, NotExisting))

\* C1: append-only merge.  For each of the five list fields, the field of c is
\* a prefix of the same field of merge_updates(c, u)[0]: every pre-existing
\* item, pre-existing duplicates included, is still there at the same index.
C1_AppendOnly ==
    Merged => \A f \in ListFieldSet : IsPrefix(inC[f], NewContext[f])

\* a merge that appended to a list holding a pre-existing duplicate
C1_Witness ==
    /\ mpc = "merged"
    /\ inC.facts = <<"f2", "f2">>
    /\ inU.facts = <<"f2", "f3">>
    /\ NewContext.facts = <<"f2", "f2", "f3">>

\* C2: merge idempotence.  If (c1, ch1) = merge_updates(c, u), then
\* merge_updates(c1, u) returns a context field-wise equal to c1 and an empty
\* changes summary.
C2_Idempotent ==
    mpc = "again" => /\ NewContext2 = NewContext
                     /\ DOMAIN mret2.changes = {}

\* the second application of updates of which the first application added some
C2_Witness ==
    /\ mpc = "again"
    /\ DOMAIN mret.changes # {}
    /\ NewContext # inC

\* C3: the merge dedup rule.  For each list field, what merge_updates appends
\* after the existing items is exactly the candidates of u that equal no
\* existing item of that field of c, each once, in the order of their first
\* occurrence in u; the other candidates are skipped.
C3_DedupRule ==
    Merged => \A f \in ListFieldSet :
                 NewContext[f] = inC[f] \o ExpectedAdded(inC[f], inU[f])

\* facts [f1, f2] merged with [f2, f3] gives [f1, f2, f3]
C3_Witness ==
    /\ mpc = "merged"
    /\ inC.facts = <<"f1", "f2">>
    /\ inU.facts = <<"f2", "f3">>
    /\ NewContext.facts = <<"f1", "f2", "f3">>

\* C4: merge purity.  merge_updates never mutates its arguments: the goal and
\* the five lists of the caller's c, and the lists of u, are after the call
\* what they were before it.
C4_Purity ==
    /\ ContextOf(lheap, oheap[ArgRefs.c]) = inC
    /\ UpdatesOf(lheap, oheap[ArgRefs.u]) = inU

\* a call that appended to two of the lists has returned
C4_Witness ==
    /\ mpc = "merged"
    /\ Cardinality(DOMAIN mret.changes) = 2
    /\ mret.ctx # ArgRefs.c

\* C5: goal immutability under merge.  merge_updates(c, u)[0].goal = c.goal.
C5_GoalKept ==
    Merged => NewContext.goal = inC.goal

\* a merge of a context with a non-empty goal that added an item
C5_Witness ==
    /\ mpc = "merged"
    /\ inC.goal = "ship it"
    /\ DOMAIN mret.changes # {}

\* C6: change summary exactness.  changes has a key for a list field exactly
\* when an item was appended to that field, and the value under the key is the
\* list of the items appended, in append order:
\* new_context.field = c.field ++ changes.get(field, []).
C6_ChangesExact ==
    Merged =>
        /\ DOMAIN mret.changes \subseteq ListFieldSet
        /\ \A f \in ListFieldSet :
             /\ f \in DOMAIN mret.changes <=> Len(NewContext[f]) > Len(inC[f])
             /\ NewContext[f] = inC[f] \o DictGet(mret.changes, f)

\* one field got a new item, another was offered only what it already had
C6_Witness ==
    /\ mpc = "merged"
    /\ inC.facts = <<"f2">>
    /\ inU.facts = <<"f2">>
    /\ inU.decisions = <<"f3">>
    /\ DOMAIN mret.changes = {"decisions"}
    /\ mret.changes["decisions"] = <<"f3">>

-----------------------------------------------------------------------------
(* Optional values: None is Python's None or an absent key, Some(x) a value *)

None == <<>>

Some(x) == <<x>>

\* the value an option holds
The(o) == o[1]

-----------------------------------------------------------------------------
(* col/core/prompt_builder.py *)

RECURSIVE JoinLines(_)
\* "\n".join(lines)
JoinLines(lines) ==
    IF lines = <<>> THEN ""
    ELSE IF Len(lines) = 1 THEN lines[1]
    ELSE lines[1] \o "\n" \o JoinLines(Tail(lines))

\* bullets in the opposite order
BulletLinesReversed(items) ==
    [i \in 1..Len(items) |-> "- " \o items[Len(items) + 1 - i]]

\* f"- {item}" for item in items
BulletLines(items) == [i \in 1..Len(items) |-> "- " \o items[i]]

\* _format_list(items): one "- item" line per item, or the placeholder
FormatList(items) ==
    IF items = <<>> THEN "(none)"
    ELSE JoinLines(BulletLines(items))

\* the lines of _format_list(items), for items that hold no line break
FormatListLines(items) ==
    IF items = <<>> THEN <<"(none)">> ELSE BulletLines(items)

\* a goal put into the prompt as it is
FormatGoalVerbatim(goal) == goal

\* context.goal or "(not set)"
FormatGoal(goal) == IF goal = "" THEN "(not set)" ELSE goal

\* the part of SYSTEM_PROMPT_TEMPLATE after the context sections
TemplateTail ==
    JoinLines(<<
        "## Your Response Format",
        "",
        "You MUST respond with valid JSON in this exact format:",
        "",
        "{",
        "  \"answer\": \"Your response addressing the current goal/question\",",
        "  \"suggested_context_updates\": {",
        "    \"facts\": [\"new fact 1\", \"new fact 2\"],",
        "    \"decisions\": [\"new decision 1\"],",
        "    \"constraints\": [],",
        "    \"tool_outputs\": [],",
        "    \"open_questions\": [\"new question if any\"]",
        "  }",
        "}",
        "",
        "Rules:",
        "- Only suggest additions to context, never deletions",
        "- Only include non-empty arrays for fields you want to update",
        "- Your \"answer\" should directly address the goal or respond to the user",
        "- Suggested updates are SUGGESTIONS - the user will decide whether to apply them",
        "" >>)

\* the headings of the context sections in SYSTEM_PROMPT_TEMPLATE
Heading ==
    [goal |-> "### Goal", constraints |-> "### Constraints",
     facts |-> "### Established Facts", decisions |-> "### Decisions Made",
     tool_outputs |-> "### Tool Outputs", open_questions |-> "### Open Questions"]

\* SYSTEM_PROMPT_TEMPLATE.format(...) line by line down to the end of the
\* context sections, for a goal and items that hold no line break, and the
\* rest of the template as the last element
PromptLines(c) ==
    << "You are an assistant working within a structured context system.",
       "",
       "## Current Context",
       "",
       "### Goal",
       FormatGoal(c.goal),
       "",
       "### Constraints" >> \o FormatListLines(c.constraints) \o
    << "",
       "### Established Facts" >> \o FormatListLines(c.facts) \o
    << "",
       "### Decisions Made" >> \o FormatListLines(c.decisions) \o
    << "",
       "### Tool Outputs" >> \o FormatListLines(c.tool_outputs) \o
    << "",
       "### Open Questions" >> \o FormatListLines(c.open_questions) \o
    << "",
       TemplateTail >>

\* a prompt that also tells the time
BuildPromptStamped(c) ==
    JoinLines(Append(PromptLines(c), "Time: " \o ToString(clock.ms)))

\* build_prompt(context)
BuildPrompt(c) == JoinLines(PromptLines(c))

-----------------------------------------------------------------------------
(* The model's output: json.loads and ModelResponse.model_validate *)

\* JSON values, as far as validation tells them apart
JStr(x) == [type |-> "str", str |-> x, items |-> <<>>]

JInt(x) == [type |-> "int", str |-> x, items |-> <<>>]

JStrList(items) == [type |-> "list", str |-> "", items |-> items]

\* a JSON object with an optional "answer" and an optional
\* "suggested_context_updates" (a dict from keys to JSON values)
JObject(answer, updates) == [kind |-> "object", answer |-> answer, updates |-> updates]

\* any JSON value that is not an object
JOther == [kind |-> "other", answer |-> None, updates |-> None]

TextNotJson == "not json"

TextNoAnswer == "{\"suggested_context_updates\": {}}"

TextMinimal == "{\"answer\": \"ok\"}"

TextIntAnswer == "{\"answer\": 42}"

TextBadUpdates == "{\"answer\": \"ok\", \"suggested_context_updates\": {\"facts\": \"oops\"}}"

TextFull == "{\"answer\": \"done\", \"suggested_context_updates\": {\"facts\": [\"f2\", \"f3\"], \"decisions\": [\"d1\"]}}"

\* the texts a provider returns
RawTexts == {TextNotJson, TextNoAnswer, TextMinimal, TextIntAnswer, TextBadUpdates, TextFull}

\* json.loads(text): the value, or the JSONDecodeError
JsonLoads(text) ==
    CASE text = TextNoAnswer ->
            [ok |-> TRUE, value |-> JObject(None, Some(EmptyDict)), error |-> ""]
      [] text = TextMinimal ->
            [ok |-> TRUE, value |-> JObject(Some(JStr("ok")), None), error |-> ""]
      [] text = TextIntAnswer ->
            [ok |-> TRUE, value |-> JObject(Some(JInt("42")), None), error |-> ""]
      [] text = TextBadUpdates ->
            [ok |-> TRUE,
             value |-> JObject(Some(JStr("ok")), Some(DictSet(EmptyDict, "facts", JStr("oops")))),
             error |-> ""]
      [] text = TextFull ->
            [ok |-> TRUE,
             value |-> JObject(Some(JStr("done")),
                               Some(DictSet(DictSet(EmptyDict, "facts", JStrList(<<"f2", "f3">>)),
                                            "decisions", JStrList(<<"d1">>)))),
             error |-> ""]
      [] OTHER ->
            [ok |-> FALSE, value |-> JOther,
             error |-> "Expecting value: line 1 column 1 (char 0)"]

\* a validation that takes whatever a field holds for a list
UpdatesValidLax(d) == TRUE

\* SuggestedContextUpdates.model_validate(d): every key present must hold a
\* list of strings, every key absent defaults to the empty list
UpdatesValid(d) == \A k \in DOMAIN d \cap ListFieldSet : d[k].type = "list"

UpdatesFrom(d) ==
    [f \in ListFieldSet |-> IF f \in DOMAIN d THEN d[f].items ELSE <<>>]

\* a ModelResponse whose suggested_context_updates has no default
ModelValidateUpdatesRequired(v) ==
    IF v.kind = "object" /\ v.answer # None /\ The(v.answer).type = "str"
       /\ v.updates # None /\ UpdatesValid(The(v.updates))
    THEN [ok |-> TRUE,
          model |-> Some([answer |-> The(v.answer).str,
                          suggested_context_updates |-> UpdatesFrom(The(v.updates))]),
          error |-> ""]
    ELSE [ok |-> FALSE, model |-> None,
          error |-> "1 validation error for ModelResponse: Field required"]

\* ModelResponse.model_validate(value): the ModelResponse, or the
\* ValidationError (pydantic 2 does not coerce a number to a string)
ModelValidate(v) ==
    IF v.kind # "object"
    THEN [ok |-> FALSE, model |-> None, error |-> "1 validation error for ModelResponse: Input should be a valid dictionary"]
    ELSE IF v.answer = None
    THEN [ok |-> FALSE, model |-> None, error |-> "1 validation error for ModelResponse: answer: Field required"]
    ELSE IF The(v.answer).type # "str"
    THEN [ok |-> FALSE, model |-> None, error |-> "1 validation error for ModelResponse: answer: Input should be a valid string"]
    ELSE IF v.updates # None /\ ~UpdatesValid(The(v.updates))
    THEN [ok |-> FALSE, model |-> None, error |-> "1 validation error for ModelResponse: suggested_context_updates: Input should be a valid list"]
    ELSE [ok |-> TRUE,
          model |-> Some([answer |-> The(v.answer).str,
                          suggested_context_updates |->
                              IF v.updates = None THEN UpdatesFrom(EmptyDict)
                              ELSE UpdatesFrom(The(v.updates))]),
          error |-> ""]

\* json.loads then model_validate, as the try block runs them
ParseAndValidate(text) ==
    LET j == JsonLoads(text)
    IN IF ~j.ok THEN [ok |-> FALSE, model |-> None, error |-> j.error, type |-> "JSONDecodeError"]
       ELSE LET m == ModelValidate(j.value)
            IN [ok |-> m.ok, model |-> m.model, error |-> m.error,
                type |-> IF m.ok THEN "" ELSE "ValidationError"]

-----------------------------------------------------------------------------
(* The environment of run_completion: the provider, the clock, the files *)

\* the Contexts run_completion is called with
RunContexts ==
    {ContextValue("", <<<<>>, <<>>, <<>>, <<>>, <<>>>>),
     ContextValue("ship it", <<<<"c1">>, <<"f1", "f2">>, <<>>, <<>>, <<>>>>)}

Instructions == {"What next?", "Summarise."}

OutputPaths == {"response.json"}

\* what a provider returns as metadata: "usage" is set only when the API
\* reported it; "prompt_hash" is set later, by run_completion
Metadata(usage) ==
    [provider |-> Some("openai"), model |-> Some("gpt-4o"), usage |-> usage,
     prompt_hash |-> None]

Metadatas == {Metadata(Some("prompt_tokens=100 completion_tokens=50"))}

\* what provider.complete raises when the call fails
ProviderErrors == {"APIConnectionError", "RateLimitError"}

\* the exception object of such a failure
ProviderException(err) ==
    [type |-> err, message |-> err \o ": the request failed",
     raw_output |-> None, output_path |-> None]

\* a file: absent, written completely, or cut short by a failed write
NoFile == [state |-> "absent", data |-> None]

FileOf(data) == [state |-> "complete", data |-> Some(data)]

PartialFile == [state |-> "partial", data |-> None]

\* how open(path, "w") followed by json.dump can go
WriteModes == {"ok", "open_fails", "dump_fails"}

\* the file at a path after such a write of data over the file old
WriteFile(old, data, mode) ==
    CASE mode = "ok" -> FileOf(data)
      [] mode = "open_fails" -> old
      [] mode = "dump_fails" -> PartialFile

\* the OSError such a write raises
WriteError(mode) ==
    [type |-> "OSError",
     message |-> IF mode = "open_fails" THEN "[Errno 13] Permission denied"
                 ELSE "[Errno 28] No space left on device",
     raw_output |-> None, output_path |-> None]

\* the readings of the wall clock: milliseconds, and microseconds within
ClockStart == [ms |-> 0, us |-> 0]

ClockTick(t) ==
    IF t.us = 0 THEN [ms |-> t.ms, us |-> 500] ELSE [ms |-> t.ms + 1, us |-> 0]

\* the last reading of a behaviour
ClockEnd == [ms |-> MaxClockMs, us |-> 500]

-----------------------------------------------------------------------------
(* col/storage.py *)

\* the name of a Context's goal field
GoalField == "goal"

\* context.model_dump(): the dict of the six fields
ModelDump(context) == [k \in {GoalField} \cup ListFieldSet |-> context[k]]

\* Context.model_validate(data) on a dict of well-typed fields: a field the
\* dict lacks takes its default
ContextValidate(data) ==
    [goal |-> IF GoalField \in DOMAIN data THEN data[GoalField] ELSE "",
     constraints |-> DictGet(data, "constraints"),
     facts |-> DictGet(data, "facts"),
     decisions |-> DictGet(data, "decisions"),
     tool_outputs |-> DictGet(data, "tool_outputs"),
     open_questions |-> DictGet(data, "open_questions")]

\* load_context(path) on a file that is there and complete
LoadContext(file) == ContextValidate(The(file.data))

\* save_context(path, context): the dump is written to the temporary file
\* path.with_suffix(".tmp"), which then replaces the file at path; a write
\* that fails raises before the replacement
SaveContext(file, tmp, context, mode) ==
    LET written == WriteFile(tmp, ModelDump(context), mode)
    IN IF mode = "ok"
       THEN [file |-> written, tmp |-> NoFile, error |-> None]
       ELSE [file |-> file, tmp |-> written, error |-> Some(WriteError(mode))]

\* the Context that init_context saves
EmptyContext == ContextValue("", <<<<>>, <<>>, <<>>, <<>>, <<>>>>)

\* init_context(path)
InitContext(file, tmp, mode) ==
    IF file.state # "absent"
    THEN [file |-> file, tmp |-> tmp,
          error |-> Some([type |-> "FileExistsError",
                          message |-> "Context file already exists",
                          raw_output |-> None, output_path |-> None])]
    ELSE SaveContext(file, tmp, EmptyContext, mode)

\* merge_updates(context, updates) called on two values: the objects are
\* laid out in heaps of their own, and what is returned is read back
MergeValues(context, updates) ==
    LET lh == <<context.constraints, context.facts, context.decisions,
                context.tool_outputs, context.open_questions,
                updates.facts, updates.decisions, updates.constraints,
                updates.tool_outputs, updates.open_questions>>
        oh == <<ContextObject(context, 0), UpdatesObject(5)>>
        r  == MergeUpdates(lh, oh, ArgRefs.c, ArgRefs.u)
    IN [context |-> ContextOf(r.lheap, r.oheap[r.ctx]), changes |-> r.changes]

-----------------------------------------------------------------------------
(* The text of the context file: json.dump and json.load of col/storage.py.
   Here a string is a sequence of characters, and a name of a field, being
   plain letters, is one element of the text. *)

Quote == "\""
Backslash == "\\"
Newline == "\n"
Space == " "
\* a character outside ASCII: e with an acute accent
NonAscii == "U+00E9"

\* the characters of the strings that are saved
StoreAlphabet == {"n", Quote, Backslash, Newline, NonAscii}

MaxStrLen == 2

StoreStrings == SeqsUpTo(StoreAlphabet, MaxStrLen)

\* the empty string and the strings of one character
StoreItems == {<<>>} \cup {<<ch>> : ch \in StoreAlphabet}

\* the Contexts that are saved: an empty list, an empty string among the
\* items, and the same strings in several fields and twice in one
StoreInputs ==
    {ContextValue(s, <<<<>>, <<s, t>>, <<t>>, <<<<>>>>, <<t, s, t>>>>) :
        s \in StoreStrings, t \in StoreItems}

\* the fields of a Context in the order of their declaration, which is the
\* order of the keys of model_dump()
FieldOrder == <<GoalField>> \o ListFields

RECURSIVE Concat(_)
Concat(ss) == IF ss = <<>> THEN <<>> ELSE Head(ss) \o Concat(Tail(ss))

\* an encoder that lets the backslash through
EscapeCharNoBackslash(ch) ==
    CASE ch = Quote -> <<Backslash, Quote>>
      [] ch = Newline -> <<Backslash, "n">>
      [] ch = NonAscii -> <<Backslash, "u", "0", "0", "e", "9">>
      [] OTHER -> <<ch>>

\* json.dump with ensure_ascii: the escape of one character of a string
EscapeChar(ch) ==
    CASE ch = Quote -> <<Backslash, Quote>>
      [] ch = Backslash -> <<Backslash, Backslash>>
      [] ch = Newline -> <<Backslash, "n">>
      [] ch = NonAscii -> <<Backslash, "u", "0", "0", "e", "9">>
      [] OTHER -> <<ch>>

\* a string as JSON text
EncodeString(str) ==
    <<Quote>> \o Concat([i \in 1..Len(str) |-> EscapeChar(str[i])]) \o <<Quote>>

Indent(n) == [i \in 1..n |-> Space]

\* a list of strings as JSON text, indent=2, one level down
EncodeList(items) ==
    IF items = <<>> THEN <<"[", "]">>
    ELSE <<"[">>
         \o Concat([i \in 1..Len(items) |->
                       <<Newline>> \o Indent(4) \o EncodeString(items[i])
                       \o (IF i < Len(items) THEN <<",">> ELSE <<>>)])
         \o <<Newline>> \o Indent(2) \o <<"]">>

\* json.dump(data, f, indent=2) of the dict of a Context
JsonDump(data) ==
    <<"{">>
    \o Concat([n \in 1..Len(FieldOrder) |->
                  <<Newline>> \o Indent(2)
                  \o <<Quote, FieldOrder[n], Quote, ":", Space>>
                  \o (IF FieldOrder[n] = GoalField
                      THEN EncodeString(data[FieldOrder[n]])
                      ELSE EncodeList(data[FieldOrder[n]]))
                  \o (IF n < Len(FieldOrder) THEN <<",">> ELSE <<>>)])
    \o <<Newline, "}">>

\* what a step of the decoder gives: a value and where the text goes on
Decoded(value, next) == [ok |-> TRUE, value |-> value, next |-> next]

\* ... or a JSONDecodeError
NotDecoded == [ok |-> FALSE, value |-> <<>>, next |-> 0]

CharAt(text, i) == IF i \in 1..Len(text) THEN text[i] ELSE "EOF"

\* the decoder skips white space between the tokens
RECURSIVE SkipSpace(_, _)
SkipSpace(text, i) ==
    IF CharAt(text, i) \in {Space, Newline} THEN SkipSpace(text, i + 1) ELSE i

\* json.decoder.py_scanstring, from behind the opening quote: the string ends
\* at the first quote that is not escaped; a raw control character and an
\* unknown escape are errors
RECURSIVE ScanString(_, _, _)
ScanString(text, i, acc) ==
    IF i > Len(text) \/ text[i] = Newline THEN NotDecoded
    ELSE IF text[i] = Quote THEN Decoded(acc, i + 1)
    ELSE IF text[i] # Backslash THEN ScanString(text, i + 1, Append(acc, text[i]))
    ELSE IF CharAt(text, i + 1) = Quote THEN ScanString(text, i + 2, Append(acc, Quote))
    ELSE IF CharAt(text, i + 1) = Backslash
         THEN ScanString(text, i + 2, Append(acc, Backslash))
    ELSE IF CharAt(text, i + 1) = "n" THEN ScanString(text, i + 2, Append(acc, Newline))
    ELSE IF CharAt(text, i + 1) = "u" /\ i + 5 <= Len(text)
            /\ SubSeq(text, i + 2, i + 5) = <<"0", "0", "e", "9">>
         THEN ScanString(text, i + 6, Append(acc, NonAscii))
    ELSE NotDecoded

\* a JSON string at i
ParseString(text, i) ==
    IF CharAt(text, i) = Quote THEN ScanString(text, i + 1, <<>>) ELSE NotDecoded

\* what follows an item of an array: a comma and more items, or the end
RECURSIVE ScanArray(_, _, _)
ArrayAfter(text, acc, item, k) ==
    IF ~item.ok THEN NotDecoded
    ELSE IF CharAt(text, k) = "," THEN ScanArray(text, k + 1, Append(acc, item.value))
    ELSE IF CharAt(text, k) = "]" THEN Decoded(Append(acc, item.value), k + 1)
    ELSE NotDecoded

\* the items of a JSON array of strings, from the first item on
ScanArray(text, i, acc) ==
    LET item == ParseString(text, SkipSpace(text, i))
    IN ArrayAfter(text, acc, item, SkipSpace(text, item.next))

\* a JSON array of strings, from behind the opening bracket
ParseArray(text, i) ==
    IF CharAt(text, SkipSpace(text, i)) = "]"
    THEN Decoded(<<>>, SkipSpace(text, i) + 1)
    ELSE ScanArray(text, i, <<>>)

\* a value with its JSON type
Typed(kind, r) ==
    IF r.ok THEN Decoded([kind |-> kind, v |-> r.value], r.next) ELSE NotDecoded

\* a JSON value at i: a string or an array of strings
ParseValue(text, i) ==
    IF CharAt(text, i) = Quote THEN Typed("str", ParseString(text, i))
    ELSE IF CharAt(text, i) = "[" THEN Typed("list", ParseArray(text, i + 1))
    ELSE NotDecoded

\* what follows a member of an object: a comma and more members, or the end
RECURSIVE ScanObject(_, _, _)
ObjectAfter(text, acc, key, member, k) ==
    IF ~member.ok THEN NotDecoded
    ELSE IF CharAt(text, k) = ","
         THEN ScanObject(text, k + 1, DictSet(acc, key.value[1], member.value))
    ELSE IF CharAt(text, k) = "}"
         THEN Decoded(DictSet(acc, key.value[1], member.value), k + 1)
    ELSE NotDecoded

\* the value of a member of an object, behind the colon that follows its key
MemberValue(text, key) ==
    IF ~key.ok \/ Len(key.value) # 1 \/ CharAt(text, SkipSpace(text, key.next)) # ":"
    THEN NotDecoded
    ELSE ParseValue(text, SkipSpace(text, SkipSpace(text, key.next) + 1))

\* the members of a JSON object, from the first key on; of two members of
\* one key the later one stays
ScanObject(text, i, acc) ==
    LET key == ParseString(text, SkipSpace(text, i))
        member == MemberValue(text, key)
    IN ObjectAfter(text, acc, key, member, SkipSpace(text, member.next))

\* json.load(f) of the text of a context file
JsonLoad(text) ==
    IF CharAt(text, SkipSpace(text, 1)) # "{" THEN NotDecoded
    ELSE IF CharAt(text, SkipSpace(text, SkipSpace(text, 1) + 1)) = "}"
    THEN Decoded(EmptyDict, SkipSpace(text, SkipSpace(text, 1) + 1) + 1)
    ELSE ScanObject(text, SkipSpace(text, 1) + 1, EmptyDict)

\* the text holds one JSON document and nothing behind it
WholeText(text, r) == r.ok /\ SkipSpace(text, r.next) = Len(text) + 1

\* pydantic takes a string for goal and a list of strings for the lists
WellTyped(data) ==
    \A k \in DOMAIN data :
        /\ k = GoalField => data[k].kind = "str"
        /\ k \in ListFieldSet => data[k].kind = "list"

Untyped(data) == [k \in DOMAIN data |-> data[k].v]

\* load_context(path) on the text of a file that is there
LoadContextText(text) ==
    LET data == JsonLoad(text)
    IN IF ~WholeText(text, data)
       THEN [called |-> TRUE, context |-> None, error |-> Some("JSONDecodeError")]
       ELSE IF ~WellTyped(data.value)
       THEN [called |-> TRUE, context |-> None, error |-> Some("ValidationError")]
       ELSE [called |-> TRUE, context |-> Some(ContextValidate(Untyped(data.value))),
             error |-> None]

\* save_context(path, context) with the text it writes: json.dump of the
\* dict, then f.write("\n")
SaveContextText(file, tmp, context, mode) ==
    IF mode = "ok"
    THEN [file |-> FileOf(JsonDump(ModelDump(context)) \o <<Newline>>),
          tmp |-> NoFile, error |-> None]
    ELSE [file |-> file, tmp |-> WriteFile(tmp, <<>>, mode),
          error |-> Some(WriteError(mode))]

-----------------------------------------------------------------------------
(* col/core/orchestrator.py *)

\* a hash salted with the time of the call
PromptHashSalted(system_prompt) ==
    "sha256:" \o system_prompt \o "@" \o ToString(clock.ms)

\* hashlib.sha256(system_prompt.encode()).hexdigest()[:16], taken to be free
\* of collisions: the digest stands for the text it was computed from
PromptHash(system_prompt) == "sha256:" \o system_prompt

\* round(end_time - start_time, 3), in milliseconds; the clock's readings
\* differ by multiples of 500 microseconds
LatencyMs(start, end) ==
    LET us == (end.ms - start.ms) * 1000 + (end.us - start.us)
    IN (us + 500) \div 1000

\* timestamp.strftime("%Y%m%d_%H%M%S_%f")[:-3] + ".json": the microseconds
\* are cut to milliseconds
ArtifactFilename(timestamp) == "run_" \o ToString(timestamp.ms) \o "ms.json"

\* an event of a call, for the order of its steps; detail names the
\* exception of a provider call that failed
Event(op, ok, detail) == [op |-> op, ok |-> ok, detail |-> detail, args |-> <<>>]

\* the positional arguments of provider.complete(system_prompt, instruction)
CompleteArgs(system_prompt, instruction) == <<system_prompt, instruction>>

\* the step at which the provider is called, with what it was called with
CallEvent(ok, detail, args) ==
    [op |-> "complete", ok |-> ok, detail |-> detail, args |-> args]

NoLocals ==
    [system_prompt |-> "", prompt_hash |-> "", start_time |-> ClockStart,
     raw_response |-> None, metadata |-> None, timestamp |-> None,
     artifact |-> None, raw_data |-> None, model_response |-> None, e |-> None]

NoResult == [kind |-> "none", value |-> None, exception |-> None]

Returned(model_response, metadata) ==
    [kind |-> "returned", value |-> Some(<<model_response, metadata>>), exception |-> None]

Raised(exception) == [kind |-> "raised", value |-> None, exception |-> Some(exception)]

NoArgs == [context |-> None, instruction |-> "", output_path |-> ""]

\* nothing has been run yet
RunIdle ==
    /\ rpc = "idle"
    /\ rargs = NoArgs
    /\ rloc = NoLocals
    /\ rresult = NoResult
    /\ rlog = <<>>
    /\ outFiles = [p \in OutputPaths |-> NoFile]
    /\ runsDir = EmptyDict
    /\ clock = ClockStart
    /\ nruns = 0
    /\ faults = 0

\* the call run_completion(context, provider, instruction, output_path), up
\* to the provider's invocation: the prompt, its hash, the start time
StartRunWith(c) ==
    /\ rpc \in {"idle", "done"}
    /\ nruns < MaxRuns
    /\ clock # ClockEnd
    /\ \E i \in Instructions, p \in OutputPaths :
          /\ rargs' = [context |-> Some(c), instruction |-> i, output_path |-> p]
          /\ rloc' = [NoLocals EXCEPT !.system_prompt = BuildPrompt(c),
                                      !.prompt_hash = PromptHash(BuildPrompt(c)),
                                      !.start_time = clock]
    /\ rlog' = <<Event("build_prompt", TRUE, "")>>
    /\ rresult' = NoResult
    /\ nruns' = nruns + 1
    /\ rpc' = "call"
    /\ UNCHANGED <<outFiles, runsDir, clock, faults>>
    /\ UNCHANGED <<mergeVars, rendered>>

\* a call of run_completion by a program that holds a Context
StartRun ==
    /\ \E c \in RunContexts : StartRunWith(c)
    /\ UNCHANGED cliVars

\* time passes while the provider is being called
Tick ==
    /\ rpc = "call"
    /\ clock # ClockEnd
    /\ clock' = ClockTick(clock)
    /\ UNCHANGED <<rpc, rargs, rloc, rresult, rlog, outFiles, runsDir, nruns, faults>>
    /\ UNCHANGED <<mergeVars, cliVars, rendered>>

\* the artifact dict as prepared after the provider has returned
NewArtifact(timestamp, metadata, prompt_hash, latency, raw_response) ==
    [timestamp |-> timestamp, provider |-> metadata.provider, model |-> metadata.model,
     prompt_hash |-> prompt_hash, latency_ms |-> latency,
     token_counts |-> metadata.usage, raw_output |-> raw_response,
     parsed_response |-> None, valid |-> FALSE, error |-> None]

\* the raw_data dict as prepared: "parsed", "valid" and "error" are not set
NewRawData(raw_response, metadata) ==
    [raw_response |-> raw_response, metadata |-> metadata,
     parsed |-> None, valid |-> None, error |-> None]

\* provider.complete(system_prompt, instruction) returns; the timestamp is
\* taken and the two dicts are prepared
ProviderReturns ==
    /\ rpc = "call"
    /\ clock # rloc.start_time
    /\ \E raw \in RawTexts, metadata \in Metadatas :
          rloc' = [rloc EXCEPT
                     !.raw_response = Some(raw),
                     !.metadata = Some(metadata),
                     !.timestamp = Some(clock),
                     !.artifact = Some(NewArtifact(clock, metadata, rloc.prompt_hash,
                                                   LatencyMs(rloc.start_time, clock), raw)),
                     !.raw_data = Some(NewRawData(raw, metadata))]
    /\ rlog' = Append(rlog, CallEvent(TRUE, "", CompleteArgs(rloc.system_prompt, rargs.instruction)))
    /\ rpc' = "validate"
    /\ UNCHANGED <<rargs, rresult, outFiles, runsDir, clock, nruns, faults>>
    /\ UNCHANGED <<mergeVars, cliVars, rendered>>

\* where an exception of provider.complete goes: the call is outside the try
\* block, so out of run_completion
ProviderRaisesCaught ==
    /\ rpc = "call"
    /\ clock # rloc.start_time
    /\ \E err \in ProviderErrors :
          /\ rloc' = [rloc EXCEPT
                     !.raw_response = Some(""),
                     !.metadata = Some(Metadata(None)),
                     !.timestamp = Some(clock),
                     !.artifact = Some(NewArtifact(clock, Metadata(None), rloc.prompt_hash,
                                                   LatencyMs(rloc.start_time, clock), "")),
                     !.raw_data = Some(NewRawData("", Metadata(None))),
                     !.e = Some(ProviderException(err))]
          /\ rlog' = Append(rlog, CallEvent(FALSE, err, CompleteArgs(rloc.system_prompt, rargs.instruction)))
    /\ rpc' = "except"
    /\ UNCHANGED <<rargs, rresult, outFiles, runsDir, clock, nruns, faults>>
    /\ UNCHANGED <<mergeVars, cliVars, rendered>>

ProviderRaises ==
    /\ rpc = "call"
    /\ clock # rloc.start_time
    /\ \E err \in ProviderErrors :
          /\ rresult' = Raised(ProviderException(err))
          /\ rlog' = Append(rlog, CallEvent(FALSE, err, CompleteArgs(rloc.system_prompt, rargs.instruction)))
    /\ rpc' = "done"
    /\ UNCHANGED <<rargs, rloc, outFiles, runsDir, clock, nruns, faults>>
    /\ UNCHANGED <<mergeVars, cliVars, rendered>>


\* the try block up to the first write: json.loads and model_validate pass,
\* and both dicts are marked valid with the parsed response attached
ValidateOkArtifactStale ==
    /\ rpc = "validate"
    /\ LET v == ParseAndValidate(The(rloc.raw_response))
       IN /\ v.ok
          /\ rloc' = [rloc EXCEPT
                        !.model_response = v.model,
                        !.raw_data = Some([The(@) EXCEPT !.parsed = v.model,
                                                         !.valid = Some(TRUE)])]
    /\ rlog' = Append(rlog, Event("validate", TRUE, ""))
    /\ rpc' = "write_output"
    /\ UNCHANGED <<rargs, rresult, outFiles, runsDir, clock, nruns, faults>>
    /\ UNCHANGED <<mergeVars, cliVars, rendered>>

ValidateOk ==
    /\ rpc = "validate"
    /\ LET v == ParseAndValidate(The(rloc.raw_response))
       IN /\ v.ok
          /\ rloc' = [rloc EXCEPT
                        !.model_response = v.model,
                        !.raw_data = Some([The(@) EXCEPT !.parsed = v.model,
                                                         !.valid = Some(TRUE)]),
                        !.artifact = Some([The(@) EXCEPT !.parsed_response = v.model,
                                                         !.valid = TRUE])]
    /\ rlog' = Append(rlog, Event("validate", TRUE, ""))
    /\ rpc' = "write_output"
    /\ UNCHANGED <<rargs, rresult, outFiles, runsDir, clock, nruns, faults>>
    /\ UNCHANGED <<mergeVars, cliVars, rendered>>

\* json.loads or model_validate raises: control goes to the except clause
ValidateFailsUnsaved ==
    /\ rpc = "validate"
    /\ LET v == ParseAndValidate(The(rloc.raw_response))
       IN /\ ~v.ok
          /\ rloc' = [rloc EXCEPT
                        !.e = Some([type |-> v.type, message |-> v.error,
                                    raw_output |-> None, output_path |-> None])]
    /\ rlog' = Append(rlog, Event("validate", FALSE, ""))
    /\ rpc' = "raise"
    /\ UNCHANGED <<rargs, rresult, outFiles, runsDir, clock, nruns, faults>>
    /\ UNCHANGED <<mergeVars, cliVars, rendered>>

\* a validation failure answered by calling the provider again
ValidateFailsRetried ==
    /\ rpc = "validate"
    /\ LET v == ParseAndValidate(The(rloc.raw_response))
       IN /\ ~v.ok
          /\ rloc' = [rloc EXCEPT !.start_time = clock]
    /\ rlog' = Append(rlog, Event("validate", FALSE, ""))
    /\ rpc' = "call"
    /\ UNCHANGED <<rargs, rresult, outFiles, runsDir, clock, nruns, faults>>
    /\ UNCHANGED <<mergeVars, cliVars, rendered>>

ValidateFails ==
    /\ rpc = "validate"
    /\ LET v == ParseAndValidate(The(rloc.raw_response))
       IN /\ ~v.ok
          /\ rloc' = [rloc EXCEPT
                        !.e = Some([type |-> v.type, message |-> v.error,
                                    raw_output |-> None, output_path |-> None])]
    /\ rlog' = Append(rlog, Event("validate", FALSE, ""))
    /\ rpc' = "except"
    /\ UNCHANGED <<rargs, rresult, outFiles, runsDir, clock, nruns, faults>>
    /\ UNCHANGED <<mergeVars, cliVars, rendered>>

\* a write may fail only while the behaviour's failures are not used up
ModeAllowed(mode) == mode = "ok" \/ faults < MaxWriteFailures

\* the output file after json.dump(raw_data) to output_path
OutputWritten(mode) ==
    [outFiles EXCEPT ![rargs.output_path] = WriteFile(@, The(rloc.raw_data), mode)]

\* the directory .col/runs after _write_run_artifact(artifact, timestamp)
ArtifactWritten(mode) ==
    LET name == ArtifactFilename(The(rloc.timestamp))
        old  == IF name \in DOMAIN runsDir THEN runsDir[name] ELSE NoFile
        new  == WriteFile(old, The(rloc.artifact), mode)
    IN IF new = NoFile THEN runsDir ELSE DictSet(runsDir, name, new)

\* try: with open(output_path, "w") ...: json.dump(raw_data, f)
WriteOutput ==
    /\ rpc = "write_output"
    /\ \E mode \in WriteModes :
          /\ ModeAllowed(mode)
          /\ outFiles' = OutputWritten(mode)
          /\ rlog' = Append(rlog, Event("write_output", mode = "ok", ""))
          /\ IF mode = "ok"
             THEN /\ rpc' = "write_artifact"
                  /\ UNCHANGED <<rloc, faults>>
             ELSE /\ rpc' = "except"
                  /\ rloc' = [rloc EXCEPT !.e = Some(WriteError(mode))]
                  /\ faults' = faults + 1
    /\ UNCHANGED <<rargs, rresult, runsDir, clock, nruns>>
    /\ UNCHANGED <<mergeVars, cliVars, rendered>>

\* try: _write_run_artifact(artifact, timestamp)
WriteArtifact ==
    /\ rpc = "write_artifact"
    /\ \E mode \in WriteModes :
          /\ ModeAllowed(mode)
          /\ runsDir' = ArtifactWritten(mode)
          /\ rlog' = Append(rlog, Event("write_artifact", mode = "ok", ""))
          /\ IF mode = "ok"
             THEN /\ rpc' = "return"
                  /\ UNCHANGED <<rloc, faults>>
             ELSE /\ rpc' = "except"
                  /\ rloc' = [rloc EXCEPT !.e = Some(WriteError(mode))]
                  /\ faults' = faults + 1
    /\ UNCHANGED <<rargs, rresult, outFiles, clock, nruns>>
    /\ UNCHANGED <<mergeVars, cliVars, rendered>>

\* a return that first applies the suggested updates to the context file
ReturnAutoApplied ==
    /\ rpc = "return"
    /\ LET metadata == [The(rloc.metadata) EXCEPT !.prompt_hash = Some(rloc.prompt_hash)]
           updates  == The(rloc.model_response).suggested_context_updates
           merged   == MergeValues(The(rargs.context), updates)
       IN /\ rloc' = [rloc EXCEPT !.metadata = Some(metadata)]
          /\ rresult' = Returned(The(rloc.model_response), metadata)
          /\ ctxFile' = IF ctxFile.state = "complete" /\ merged.changes # EmptyDict
                        THEN FileOf(ModelDump(merged.context))
                        ELSE ctxFile
    /\ rpc' = "done"
    /\ UNCHANGED <<rargs, rlog, outFiles, runsDir, clock, nruns, faults>>
    /\ UNCHANGED <<mergeVars, ctxTmp, cexit, ctxLoaded, rendered>>

\* metadata["prompt_hash"] = prompt_hash; return model_response, metadata
Return ==
    /\ rpc = "return"
    /\ LET metadata == [The(rloc.metadata) EXCEPT !.prompt_hash = Some(rloc.prompt_hash)]
       IN /\ rloc' = [rloc EXCEPT !.metadata = Some(metadata)]
          /\ rresult' = Returned(The(rloc.model_response), metadata)
    /\ rpc' = "done"
    /\ UNCHANGED <<rargs, rlog, outFiles, runsDir, clock, nruns, faults>>
    /\ UNCHANGED <<mergeVars, cliVars, rendered>>

\* except (json.JSONDecodeError, Exception) as e: the two dicts take the error
Except ==
    /\ rpc = "except"
    /\ LET msg == The(rloc.e).message
       IN rloc' = [rloc EXCEPT
                     !.raw_data = Some([The(@) EXCEPT !.valid = Some(FALSE),
                                                      !.error = Some(msg)]),
                     !.artifact = Some([The(@) EXCEPT !.error = Some(msg)])]
    /\ rpc' = "except_write_output"
    /\ UNCHANGED <<rargs, rresult, rlog, outFiles, runsDir, clock, nruns, faults>>
    /\ UNCHANGED <<mergeVars, cliVars, rendered>>

\* except: with open(output_path, "w") ...: an error here leaves run_completion
ExceptWriteOutput ==
    /\ rpc = "except_write_output"
    /\ \E mode \in WriteModes :
          /\ ModeAllowed(mode)
          /\ outFiles' = OutputWritten(mode)
          /\ rlog' = Append(rlog, Event("write_output", mode = "ok", ""))
          /\ IF mode = "ok"
             THEN /\ rpc' = "except_write_artifact"
                  /\ UNCHANGED <<rresult, faults>>
             ELSE /\ rpc' = "done"
                  /\ rresult' = Raised(WriteError(mode))
                  /\ faults' = faults + 1
    /\ UNCHANGED <<rargs, rloc, runsDir, clock, nruns>>
    /\ UNCHANGED <<mergeVars, cliVars, rendered>>

\* except: _write_run_artifact(artifact, timestamp)
ExceptWriteArtifact ==
    /\ rpc = "except_write_artifact"
    /\ \E mode \in WriteModes :
          /\ ModeAllowed(mode)
          /\ runsDir' = ArtifactWritten(mode)
          /\ rlog' = Append(rlog, Event("write_artifact", mode = "ok", ""))
          /\ IF mode = "ok"
             THEN /\ rpc' = "raise"
                  /\ UNCHANGED <<rresult, faults>>
             ELSE /\ rpc' = "done"
                  /\ rresult' = Raised(WriteError(mode))
                  /\ faults' = faults + 1
    /\ UNCHANGED <<rargs, rloc, outFiles, clock, nruns>>
    /\ UNCHANGED <<mergeVars, cliVars, rendered>>

\* the InvalidResponseError the except clause raises
InvalidResponseErrorOfMessage(e, raw_response, output_path) ==
    [type |-> "InvalidResponseError",
     message |-> "Invalid response from LLM: " \o e.message
                 \o ". Raw output saved to " \o output_path,
     raw_output |-> Some(e.message), output_path |-> Some(output_path)]

InvalidResponseError(e, raw_response, output_path) ==
    [type |-> "InvalidResponseError",
     message |-> "Invalid response from LLM: " \o e.message
                 \o ". Raw output saved to " \o output_path,
     raw_output |-> Some(raw_response), output_path |-> Some(output_path)]

\* except: raise InvalidResponseError(..., raw_output=raw_response, output_path=output_path)
RaiseInvalidResponse ==
    /\ rpc = "raise"
    /\ rresult' = Raised(InvalidResponseError(The(rloc.e), The(rloc.raw_response),
                                              rargs.output_path))
    /\ rpc' = "done"
    /\ UNCHANGED <<rargs, rloc, rlog, outFiles, runsDir, clock, nruns, faults>>
    /\ UNCHANGED <<mergeVars, cliVars, rendered>>

-----------------------------------------------------------------------------
(* The specifications *)

\* a caller holds a Context c and a SuggestedContextUpdates u
\* no command of the program has been given
NoExit == [command |-> "", code |-> None, message |-> "", yes |-> FALSE,
           confirmed |-> FALSE, changes |-> EmptyDict]

\* load_context has not been called on the file's text
NotLoaded == [called |-> FALSE, context |-> None, error |-> None]

CliIdle ==
    /\ ctxFile = NoFile
    /\ ctxTmp = NoFile
    /\ cexit = NoExit
    /\ ctxLoaded = NotLoaded

\* build_prompt has not been called
RenderIdle == rendered = <<>>

MergeInit ==
    /\ inC \in CtxInputs
    /\ inU \in UpdInputs
    /\ lheap = <<inC.constraints, inC.facts, inC.decisions, inC.tool_outputs,
                 inC.open_questions, inU.facts, inU.decisions, inU.constraints,
                 inU.tool_outputs, inU.open_questions>>
    /\ oheap = <<ContextObject(inC, 0), UpdatesObject(5)>>
    /\ mpc = "call"
    /\ mret = NoReturn
    /\ mret2 = NoReturn
    /\ RunIdle
    /\ CliIdle
    /\ RenderIdle

\* (c1, ch1) = merge_updates(c, u)
Merge ==
    /\ mpc = "call"
    /\ LET r == MergeUpdates(lheap, oheap, ArgRefs.c, ArgRefs.u)
       IN /\ lheap' = r.lheap
          /\ oheap' = r.oheap
          /\ mret' = [ctx |-> r.ctx, changes |-> r.changes]
    /\ mpc' = "merged"
    /\ UNCHANGED <<inC, inU, mret2>>
    /\ UNCHANGED <<runVars, cliVars, rendered>>

\* (c2, ch2) = merge_updates(c1, u): the same updates applied to the result
MergeAgain ==
    /\ mpc = "merged"
    /\ LET r == MergeUpdates(lheap, oheap, mret.ctx, ArgRefs.u)
       IN /\ lheap' = r.lheap
          /\ oheap' = r.oheap
          /\ mret2' = [ctx |-> r.ctx, changes |-> r.changes]
    /\ mpc' = "again"
    /\ UNCHANGED <<inC, inU, mret>>
    /\ UNCHANGED <<runVars, cliVars, rendered>>

MergeNext == Merge \/ MergeAgain

SpecMerge == MergeInit /\ [][MergeNext]_vars

\* no merge is under way
MergeIdle ==
    /\ lheap = <<>>
    /\ oheap = <<>>
    /\ inC = ContextValue("", <<<<>>, <<>>, <<>>, <<>>, <<>>>>)
    /\ inU = UpdatesValue(<<<<>>, <<>>, <<>>, <<>>, <<>>>>)
    /\ mpc = "idle"
    /\ mret = NoReturn
    /\ mret2 = NoReturn

RunInit == RunIdle /\ MergeIdle /\ CliIdle /\ RenderIdle

RunNext ==
    \/ StartRun
    \/ Tick
    \/ ProviderReturns
    \/ ProviderRaises
    \/ ValidateOk
    \/ ValidateFails
    \/ WriteOutput
    \/ WriteArtifact
    \/ Return
    \/ Except
    \/ ExceptWriteOutput
    \/ ExceptWriteArtifact
    \/ RaiseInvalidResponse

\* successive calls of run_completion in one process, one at a time
SpecRun == RunInit /\ [][RunNext]_vars

-----------------------------------------------------------------------------
(* col/cli.py: the commands init, run and apply, one at a time *)

\* the run commands in one behaviour, among its init and apply commands
MaxCliRuns == MaxRuns - 1

\* how a command ends: typer.Exit(code), or 0 when the function returns; an
\* exception no handler catches ends the process with code 1
Exit(command, code, message) ==
    [NoExit EXCEPT !.command = command, !.code = Some(code), !.message = message]

\* the run command is under way
RunUnderWay == [NoExit EXCEPT !.command = "run"]

\* no command is under way
ShellPrompt == rpc \in {"idle", "done"} /\ cexit # RunUnderWay

\* col init: init_context(path), FileExistsError ending in Exit(1)
CliInit ==
    /\ ShellPrompt
    /\ \E mode \in WriteModes :
          /\ ModeAllowed(mode)
          /\ LET r == InitContext(ctxFile, ctxTmp, mode)
             IN /\ ctxFile' = r.file
                /\ ctxTmp' = r.tmp
                /\ cexit' = IF r.error = None
                            THEN Exit("init", 0, "Created context file")
                            ELSE Exit("init", 1, The(r.error).type)
                /\ faults' = IF r.error # None /\ The(r.error).type = "OSError"
                             THEN faults + 1 ELSE faults
    /\ UNCHANGED <<rpc, rargs, rloc, rresult, rlog, outFiles, runsDir, clock, nruns>>
    /\ UNCHANGED <<mergeVars, ctxLoaded, rendered>>

\* col run, up to the provider's invocation: load_context(context_file),
\* FileNotFoundError ending in Exit(1), then run_completion(context, ...)
CliRun ==
    /\ ShellPrompt
    /\ \/ /\ ctxFile.state = "absent"
          /\ cexit' = Exit("run", 1, "Context file not found")
          /\ UNCHANGED runVars
          /\ UNCHANGED <<mergeVars, rendered>>
       \/ /\ ctxFile.state = "complete"
          /\ nruns < MaxCliRuns
          /\ StartRunWith(LoadContext(ctxFile))
          /\ cexit' = RunUnderWay
    /\ UNCHANGED <<ctxFile, ctxTmp, ctxLoaded>>

\* col run, after run_completion: the response is shown, or
\* InvalidResponseError ends in Exit(1); any other exception is not caught
CliRunEnds ==
    /\ rpc = "done"
    /\ cexit = RunUnderWay
    /\ cexit' = CASE rresult.kind = "returned" -> Exit("run", 0, "Response saved to")
                  [] rresult.kind = "raised"
                     /\ The(rresult.exception).type = "InvalidResponseError" ->
                        Exit("run", 1, "Manual intervention required")
                  [] OTHER -> Exit("run", 1, The(rresult.exception).type)
    /\ UNCHANGED runVars
    /\ UNCHANGED <<mergeVars, ctxFile, ctxTmp, ctxLoaded, rendered>>

\* if not yes: confirm = typer.confirm(...); if not confirm: Exit(0)
ConfirmedAlways(yes, confirm) == TRUE

Confirmed(yes, confirm) == yes \/ confirm

\* how an apply ends that got as far as the merge
ApplyExit(code, message, yes, confirmed, changes) ==
    [Exit("apply", code, message) EXCEPT
        !.yes = yes, !.confirmed = confirmed, !.changes = changes]

\* a check that takes a response with a parsed section for a valid one
MarkedValidOrParsed(response) ==
    \/ The(response.data).valid = Some(TRUE)
    \/ The(response.data).parsed # None

\* response_data.get("valid", False): a flag that is missing, null or false
\* is not true
MarkedValid(response) == The(response.data).valid = Some(TRUE)

\* updates = SuggestedContextUpdates.model_validate(parsed.get(
\* "suggested_context_updates", {})) on a response file marked valid
ResponseUpdates(response) ==
    The(The(response.data).parsed).suggested_context_updates

\* a merge into a new document instead of the loaded one
ApplyMergeAfresh(file, response) ==
    MergeValues(EmptyContext, ResponseUpdates(response))

\* new_context, changes = merge_updates(context, updates)
ApplyMerge(file, response) ==
    MergeValues(LoadContext(file), ResponseUpdates(response))

\* what a command leaves: the two files as saved, and its exit
Ended(saved, exit) ==
    [file |-> saved.file, tmp |-> saved.tmp, error |-> saved.error, exit |-> exit]

\* the last steps of col apply, once the merge has found changes: the
\* confirmation and save_context(context_file, new_context)
ApplySave(file, tmp, merged, yes, confirm, mode) ==
    IF ~Confirmed(yes, confirm)
    THEN [file |-> file, tmp |-> tmp, error |-> None,
          exit |-> ApplyExit(0, "Cancelled.", yes, FALSE, merged.changes)]
    ELSE Ended(SaveContext(file, tmp, merged.context, mode),
               IF mode = "ok"
               THEN ApplyExit(0, "Context updated", yes, ~yes /\ confirm,
                              merged.changes)
               ELSE ApplyExit(1, WriteError(mode).type, yes, ~yes /\ confirm,
                              merged.changes))

\* the body of col apply on the context file, its temporary file and the
\* response file: what the two files are afterwards and how the command ends
Apply(file, tmp, response, yes, confirm, mode) ==
    IF file.state = "absent"
    THEN [file |-> file, tmp |-> tmp, error |-> None,
          exit |-> Exit("apply", 1, "Context file not found")]
    ELSE IF response.state = "absent"
    THEN [file |-> file, tmp |-> tmp, error |-> None,
          exit |-> Exit("apply", 1, "Response file not found")]
    ELSE IF response.state = "partial"
    THEN [file |-> file, tmp |-> tmp, error |-> None,
          exit |-> Exit("apply", 1, "JSONDecodeError")]
    ELSE IF ~MarkedValid(response)
    THEN [file |-> file, tmp |-> tmp, error |-> None,
          exit |-> Exit("apply", 1, "Response file contains invalid data.")]
    ELSE IF ApplyMerge(file, response).changes = EmptyDict
    THEN [file |-> file, tmp |-> tmp, error |-> None,
          exit |-> ApplyExit(0, "No new updates to apply.", yes, FALSE, EmptyDict)]
    ELSE ApplySave(file, tmp, ApplyMerge(file, response), yes, confirm, mode)

\* col apply --context context_file --response response_file [--yes], with
\* the user's answer to the confirmation prompt
CliApply ==
    /\ ShellPrompt
    /\ \E p \in OutputPaths, yes \in BOOLEAN, confirm \in BOOLEAN, mode \in WriteModes :
          /\ ModeAllowed(mode)
          /\ LET r == Apply(ctxFile, ctxTmp, outFiles[p], yes, confirm, mode)
             IN /\ ctxFile' = r.file
                /\ ctxTmp' = r.tmp
                /\ cexit' = r.exit
                /\ faults' = IF r.error = None THEN faults ELSE faults + 1
    /\ UNCHANGED <<rpc, rargs, rloc, rresult, rlog, outFiles, runsDir, clock, nruns>>
    /\ UNCHANGED <<mergeVars, ctxLoaded, rendered>>

\* the context file is not there yet, or holds a document
CliInit0 ==
    /\ ctxFile \in {NoFile} \cup {FileOf(ModelDump(c)) : c \in RunContexts}
    /\ ctxTmp = NoFile
    /\ cexit = NoExit
    /\ ctxLoaded = NotLoaded

CliInitial == RunIdle /\ MergeIdle /\ RenderIdle /\ CliInit0

CliNext ==
    \/ CliInit
    \/ CliRun
    \/ Tick
    \/ ProviderReturns
    \/ ProviderRaises
    \/ ValidateOk
    \/ ValidateFails
    \/ WriteOutput
    \/ WriteArtifact
    \/ Return
    \/ Except
    \/ ExceptWriteOutput
    \/ ExceptWriteArtifact
    \/ RaiseInvalidResponse
    \/ CliRunEnds
    \/ CliApply

\* the commands of the program given one after another on one directory
SpecCli == CliInitial /\ [][CliNext]_vars

-----------------------------------------------------------------------------
(* col/core/prompt_builder.py: build_prompt called on Context objects *)

\* a Context built from its six fields, and a second one, of lists of its
\* own, loaded from the file the first was saved to
RenderInit ==
    /\ inC \in CtxInputs
    /\ LET loaded == LoadContext(FileOf(ModelDump(inC)))
       IN /\ lheap = <<inC.constraints, inC.facts, inC.decisions, inC.tool_outputs,
                       inC.open_questions, loaded.constraints, loaded.facts,
                       loaded.decisions, loaded.tool_outputs, loaded.open_questions>>
          /\ oheap = <<ContextObject(inC, 0), ContextObject(loaded, 5)>>
    /\ inU = UpdatesValue(<<<<>>, <<>>, <<>>, <<>>, <<>>>>)
    /\ mpc = "idle"
    /\ mret = NoReturn
    /\ mret2 = NoReturn
    /\ RunIdle
    /\ CliIdle
    /\ RenderIdle

\* build_prompt(context) on one of the two objects, at some time
Render ==
    /\ Len(rendered) < MaxRenders
    /\ \E o \in DOMAIN oheap :
          rendered' = Append(rendered,
                             [object |-> o, time |-> clock,
                              context |-> ContextOf(lheap, oheap[o]),
                              prompt |-> BuildPrompt(ContextOf(lheap, oheap[o])),
                              lines |-> PromptLines(ContextOf(lheap, oheap[o]))])
    /\ UNCHANGED <<mergeVars, runVars, cliVars>>

\* time passes between the calls
RenderTick ==
    /\ clock # ClockEnd
    /\ clock' = ClockTick(clock)
    /\ UNCHANGED <<rpc, rargs, rloc, rresult, rlog, outFiles, runsDir, nruns, faults>>
    /\ UNCHANGED <<mergeVars, cliVars, rendered>>

RenderNext == Render \/ RenderTick

SpecRender == RenderInit /\ [][RenderNext]_vars

\* a caller holds a Context and saves it to a path where no file is
StoreInit ==
    /\ inC \in StoreInputs
    /\ lheap = <<>>
    /\ oheap = <<>>
    /\ inU = UpdatesValue(<<<<>>, <<>>, <<>>, <<>>, <<>>>>)
    /\ mpc = "idle"
    /\ mret = NoReturn
    /\ mret2 = NoReturn
    /\ RunIdle
    /\ CliIdle
    /\ RenderIdle

\* save_context(path, context)
StoreSave ==
    /\ \E mode \in WriteModes :
          /\ ModeAllowed(mode)
          /\ LET r == SaveContextText(ctxFile, ctxTmp, inC, mode)
             IN /\ ctxFile' = r.file
                /\ ctxTmp' = r.tmp
                /\ faults' = IF r.error = None THEN faults ELSE faults + 1
    /\ UNCHANGED <<rpc, rargs, rloc, rresult, rlog, outFiles, runsDir, clock, nruns>>
    /\ UNCHANGED <<mergeVars, cexit, ctxLoaded, rendered>>

\* load_context(path) of the file that is there
StoreLoad ==
    /\ ctxFile.state = "complete"
    /\ ctxLoaded' = LoadContextText(The(ctxFile.data))
    /\ UNCHANGED <<mergeVars, runVars, ctxFile, ctxTmp, cexit, rendered>>

StoreNext == StoreSave \/ StoreLoad

SpecStore == StoreInit /\ [][StoreNext]_vars

\* the parsed sections of the response files given to apply: one that
\* suggests two facts and one that suggests nothing
ParsedSections == {ParseAndValidate(TextFull).model, ParseAndValidate(TextMinimal).model}

\* the response files given to apply, written by run_completion or by hand:
\* the valid flag is missing, false or true, a parsed section is there or
\* not, and so is an error; a file that says valid has a parsed section
ResponseData ==
    {data \in [raw_response : {TextFull}, metadata : {Metadata(None)},
                parsed : {None} \cup ParsedSections,
                valid : {None, Some(FALSE), Some(TRUE)},
                error : {None, Some("Expecting value: line 1 column 1 (char 0)")}] :
        data.valid = Some(TRUE) => data.parsed # None}

ResponseFiles == {NoFile, PartialFile} \cup {FileOf(data) : data \in ResponseData}

\* a context file and a response file are there, or not, before apply
ApplyInit ==
    /\ MergeIdle
    /\ RenderIdle
    /\ rpc = "idle"
    /\ rargs = NoArgs
    /\ rloc = NoLocals
    /\ rresult = NoResult
    /\ rlog = <<>>
    /\ outFiles \in [OutputPaths -> ResponseFiles]
    /\ runsDir = EmptyDict
    /\ clock = ClockStart
    /\ nruns = 0
    /\ faults = 0
    /\ CliInit0

\* the apply command given again and again on the two files
SpecApply == ApplyInit /\ [][CliApply]_vars

-----------------------------------------------------------------------------
(* Properties of run_completion, checked under SpecRun *)

\* the current call of run_completion has ended, by return or by exception
RunEnded == rpc = "done"

\* provider.complete has returned in the current call
ProviderReturned == \E i \in 1..Len(rlog) : rlog[i].op = "complete" /\ rlog[i].ok

\* the positions of the current call's events of an operation
EventsOf(op) == {i \in 1..Len(rlog) : rlog[i].op = op}

\* no file write of the current call has failed
NoWriteFailed ==
    \A i \in EventsOf("write_output") \cup EventsOf("write_artifact") : rlog[i].ok

\* the current call's last write to output_path succeeded
LastOutputWriteOk ==
    /\ EventsOf("write_output") # {}
    /\ \A i \in EventsOf("write_output") :
          (\A j \in EventsOf("write_output") : j <= i) => rlog[i].ok

\* the file at the current call's output path
OutputFile == outFiles[rargs.output_path]

\* the file of the current call's run artifact
ArtifactFile ==
    LET name == ArtifactFilename(The(rloc.timestamp))
    IN IF name \in DOMAIN runsDir THEN runsDir[name] ELSE NoFile

\* the raw text and the metadata as the provider returned them
RawText == The(rloc.raw_response)

ProviderMetadata == [The(rloc.metadata) EXCEPT !.prompt_hash = None]

\* what validation makes of the raw text
Validation == ParseAndValidate(RawText)

\* C7 as stated: the raw response and the metadata are written to output_path
\* before validation of the raw response is attempted, so whenever validation
\* has been attempted, a write to output_path has preceded it.
C7_WrittenBeforeValidation ==
    \A i \in EventsOf("validate") :
        \E j \in EventsOf("write_output") : j < i /\ rlog[j].ok

\* C7 amended: in every call in which the provider returns, validation is
\* attempted first and output_path is written after it, on the success path
\* and on the validation-failure path alike; when the call ends the file
\* holds the raw response and the provider's metadata, whatever validation
\* found, unless the last write to output_path itself failed.
C7_WrittenAfterValidation ==
    /\ \A j \in EventsOf("write_output") : \E i \in EventsOf("validate") : i < j
    /\ RunEnded /\ ProviderReturned =>
          /\ EventsOf("write_output") # {}
          /\ LastOutputWriteOk =>
                /\ OutputFile.state = "complete"
                /\ The(OutputFile.data).raw_response = RawText
                /\ The(OutputFile.data).metadata = ProviderMetadata

\* a call ended after a validation failure, with the raw text in the file
C7_Witness ==
    /\ RunEnded
    /\ ProviderReturned
    /\ ~Validation.ok
    /\ OutputFile.state = "complete"
    /\ The(OutputFile.data).raw_response = TextNotJson

\* C8: the validation-failure outcome.  When the raw text fails JSON parsing
\* or schema validation (and the file writes succeed), run_completion ends by
\* raising InvalidResponseError with raw_output the provider's raw text and
\* output_path the given path; the output file then holds raw_response equal
\* to the raw text, valid = false and the error message, and one run artifact
\* has been written, with valid = false, parsed_response = null and the same
\* error.
C8_InvalidOutcome ==
    RunEnded /\ ProviderReturned /\ ~Validation.ok /\ NoWriteFailed =>
        /\ rresult.kind = "raised"
        /\ The(rresult.exception).type = "InvalidResponseError"
        /\ The(rresult.exception).raw_output = Some(RawText)
        /\ The(rresult.exception).output_path = Some(rargs.output_path)
        /\ OutputFile.state = "complete"
        /\ The(OutputFile.data).raw_response = RawText
        /\ The(OutputFile.data).valid = Some(FALSE)
        /\ The(OutputFile.data).error = Some(Validation.error)
        /\ Cardinality(EventsOf("write_artifact")) = 1
        /\ ArtifactFile.state = "complete"
        /\ The(ArtifactFile.data).raw_output = RawText
        /\ The(ArtifactFile.data).valid = FALSE
        /\ The(ArtifactFile.data).parsed_response = None
        /\ The(ArtifactFile.data).error = Some(Validation.error)

\* a call on a schema-mismatched response has raised InvalidResponseError
C8_Witness ==
    /\ RunEnded
    /\ ProviderReturned
    /\ RawText = TextBadUpdates
    /\ NoWriteFailed
    /\ rresult.kind = "raised"
    /\ The(rresult.exception).type = "InvalidResponseError"

\* C9: the success outcome.  When the raw text parses and validates as a
\* ModelResponse (and the file writes succeed), run_completion returns that
\* ModelResponse and the metadata; the output file holds raw_response,
\* valid = true and the parsed response with no error, and one run artifact
\* has been written, with valid = true, the parsed response and error = null.
C9_ValidOutcome ==
    RunEnded /\ ProviderReturned /\ Validation.ok /\ NoWriteFailed =>
        /\ rresult.kind = "returned"
        /\ The(rresult.value)[1] = The(Validation.model)
        /\ The(rresult.value)[2] = [ProviderMetadata EXCEPT !.prompt_hash = Some(rloc.prompt_hash)]
        /\ OutputFile.state = "complete"
        /\ The(OutputFile.data).raw_response = RawText
        /\ The(OutputFile.data).valid = Some(TRUE)
        /\ The(OutputFile.data).parsed = Validation.model
        /\ The(OutputFile.data).error = None
        /\ Cardinality(EventsOf("write_artifact")) = 1
        /\ ArtifactFile.state = "complete"
        /\ The(ArtifactFile.data).raw_output = RawText
        /\ The(ArtifactFile.data).valid = TRUE
        /\ The(ArtifactFile.data).parsed_response = Validation.model
        /\ The(ArtifactFile.data).error = None

\* a call on a response with suggested updates has returned them
C9_Witness ==
    /\ RunEnded
    /\ ProviderReturned
    /\ RawText = TextFull
    /\ rresult.kind = "returned"
    /\ The(rresult.value)[1].suggested_context_updates.facts = <<"f2", "f3">>

\* C10: transport failure.  If provider.complete raises, run_completion ends
\* with that same exception, has called the provider once, and has written
\* neither the output file nor a run artifact.
C10_TransportFailure ==
    \A i \in EventsOf("complete") :
        ~rlog[i].ok =>
            /\ RunEnded
            /\ rresult = Raised(ProviderException(rlog[i].detail))
            /\ Cardinality(EventsOf("complete")) = 1
            /\ EventsOf("write_output") = {}
            /\ EventsOf("write_artifact") = {}

\* the provider failed in a second call; the first call's files are as they were
C10_Witness ==
    /\ RunEnded
    /\ nruns = 2
    /\ rresult = Raised(ProviderException("RateLimitError"))
    /\ OutputFile.state = "complete"
    /\ DOMAIN runsDir # {}

\* each Context run_completion is called with, and its prompt
RunPrompts == {<<c, BuildPrompt(c)>> : c \in RunContexts}

\* C11: single provider call, no retry.  The prompt is rendered before the
\* provider is called; within one call of run_completion provider.complete is
\* called at most once, exactly once as soon as the call has got past that
\* line, with the prompt rendered from the context as its first argument and
\* the instruction, unchanged, as its second; no call of the provider follows
\* a validation step.
C11_SingleProviderCall ==
    /\ Cardinality(EventsOf("complete")) <= 1
    /\ rpc \notin {"idle", "call"} => Cardinality(EventsOf("complete")) = 1
    /\ \A i \in EventsOf("complete") :
          /\ \E j \in EventsOf("build_prompt") : j < i
          /\ \A j \in EventsOf("validate") : i < j
          /\ <<The(rargs.context), rlog[i].args[1]>> \in RunPrompts
          /\ rlog[i].args = <<rlog[i].args[1], rargs.instruction>>

\* a call has ended in InvalidResponseError after calling the provider once
\* with the prompt of a non-empty context
C11_Witness ==
    /\ RunEnded
    /\ rresult.kind = "raised"
    /\ The(rresult.exception).type = "InvalidResponseError"
    /\ The(rargs.context).goal = "ship it"
    /\ Cardinality(EventsOf("complete")) = 1
    /\ \E i \in EventsOf("validate") : ~rlog[i].ok

\* the current call has ended with the OSError of one of its own file writes
EndedByWriteError ==
    /\ RunEnded
    /\ rresult.kind = "raised"
    /\ The(rresult.exception).type = "OSError"

\* C12 as stated: write count per run.  A call of run_completion in which
\* the provider returns writes output_path exactly once and writes a run
\* artifact exactly once, on the success path and on the validation-failure
\* path alike, also when one of the writes fails and the handler runs: no
\* call writes either file a second time, and a call that has ended has
\* written each of them once (granted here: unless it ended with the error
\* of the failed write itself).
C12_WriteOnce ==
    /\ Cardinality(EventsOf("write_output")) <= 1
    /\ Cardinality(EventsOf("write_artifact")) <= 1
    /\ RunEnded /\ ProviderReturned /\ ~EndedByWriteError =>
          /\ Cardinality(EventsOf("write_output")) = 1
          /\ Cardinality(EventsOf("write_artifact")) = 1

\* the artifact files in .col/runs that a call other than the current one
\* wrote: their timestamp is not the current call's
ArtifactsOfOtherRuns ==
    {name \in DOMAIN runsDir :
        /\ runsDir[name].state = "complete"
        /\ The(runsDir[name].data).timestamp # The(rloc.timestamp)}

\* C13 as stated: artifact distinctness.  Each call's artifact is stored
\* under a file name of its own, derived from its timestamp, so no step of a
\* call writes over the artifact file of another call: those files stay as
\* they are.
C13_ArtifactsDistinct ==
    [][rloc.timestamp # None =>
          \A name \in ArtifactsOfOtherRuns : runsDir'[name] = runsDir[name]]_vars

\* C17 as stated: a failure to write the run artifact is fatal and not
\* swallowed.  A call in which a write of the run artifact has failed ends
\* with that OSError raised to its caller, not with a return and not with
\* InvalidResponseError.
C17_ArtifactFailureFatal ==
    RunEnded /\ (\E i \in EventsOf("write_artifact") : ~rlog[i].ok) =>
        /\ rresult.kind = "raised"
        /\ The(rresult.exception).type = "OSError"

\* the raw texts that are not JSON, that have no string "answer" at the top
\* level, or whose suggested_context_updates has a field that is not a list
Unacceptable == {TextNotJson, TextNoAnswer, TextIntAnswer, TextBadUpdates}

\* C18: validator totality, no partial acceptance.  On a raw text that is
\* not parseable JSON, or has no string answer, or has a wrongly typed
\* updates field, validation fails: no ModelResponse is built from it, the
\* call does not return, and it ends with an exception, InvalidResponseError
\* carrying the raw text as it was when the file writes succeed.
C18_ValidatorTotality ==
    ProviderReturned /\ RawText \in Unacceptable =>
        /\ rloc.model_response = None
        /\ rresult.kind # "returned"
        /\ \A i \in EventsOf("validate") : ~rlog[i].ok
        /\ RunEnded =>
              /\ rresult.kind = "raised"
              /\ NoWriteFailed =>
                    /\ The(rresult.exception).type = "InvalidResponseError"
                    /\ The(rresult.exception).raw_output = Some(RawText)
                    /\ The(OutputFile.data).parsed = None

\* a call on a response whose answer is a number has been rejected
C18_Witness ==
    /\ RunEnded
    /\ ProviderReturned
    /\ RawText = TextIntAnswer
    /\ rresult.kind = "raised"
    /\ The(rresult.exception).type = "InvalidResponseError"
    /\ rloc.model_response = None

\* what validation is to make of the two raw texts that leave fields out
ExpectedModel(text) ==
    IF text = TextMinimal
    THEN [answer |-> "ok",
          suggested_context_updates |-> UpdatesValue(<<<<>>, <<>>, <<>>, <<>>, <<>>>>)]
    ELSE [answer |-> "done",
          suggested_context_updates |->
              UpdatesValue(<<<<"f2", "f3">>, <<"d1">>, <<>>, <<>>, <<>>>>)]

\* C19: validator defaults.  A JSON object with a string answer is accepted
\* when suggested_context_updates is absent or leaves fields out: once
\* validation has run no failure is recorded, and the ModelResponse has the
\* empty sequence for every absent field (all five for {"answer": "ok"}) and
\* the items of the fields present, in their order; that ModelResponse is
\* what the call returns when the file writes succeed.
C19_ValidatorDefaults ==
    ProviderReturned /\ RawText \in {TextMinimal, TextFull} =>
        /\ \A i \in EventsOf("validate") :
              /\ rlog[i].ok
              /\ rloc.model_response = Some(ExpectedModel(RawText))
        /\ RunEnded /\ NoWriteFailed =>
              /\ rresult.kind = "returned"
              /\ The(rresult.value)[1] = ExpectedModel(RawText)

\* a call on {"answer": "ok"} has returned a ModelResponse of five empty lists
C19_Witness ==
    /\ RunEnded
    /\ ProviderReturned
    /\ RawText = TextMinimal
    /\ rresult.kind = "returned"
    /\ \A f \in ListFieldSet : The(rresult.value)[1].suggested_context_updates[f] = <<>>

-----------------------------------------------------------------------------
(* Properties of the commands, checked under SpecCli *)

C15_ApplyOnlyConfirmed ==
    [][cexit'.command = "apply" =>
          /\ cexit'.changes = EmptyDict \/ ~(cexit'.yes \/ cexit'.confirmed) =>
                ctxFile' = ctxFile
          /\ cexit'.message = "No new updates to apply." =>
                cexit'.changes = EmptyDict /\ cexit'.code = Some(0)
          /\ ctxFile' # ctxFile =>
                \E p \in OutputPaths :
                    /\ outFiles[p].state = "complete"
                    /\ The(outFiles[p].data).valid = Some(TRUE)
                    /\ ApplyMerge(ctxFile, outFiles[p]).changes = cexit'.changes
                    /\ cexit'.changes # EmptyDict
                    /\ ctxFile' = FileOf(ModelDump(ApplyMerge(ctxFile, outFiles[p]).context))]_vars

\* the user has declined an apply that would have added a fact
C15_Witness ==
    /\ cexit = ApplyExit(0, "Cancelled.", FALSE, FALSE, cexit.changes)
    /\ DictGet(cexit.changes, "facts") = <<"f3">>
    /\ ctxFile.state = "complete"
    /\ The(ctxFile.data).facts = <<"f1", "f2">>

\* C16 as stated: crash-atomic persistence.  The context file, the response
\* file and the run-artifact files are each written to a temporary file that
\* is renamed into place, so whatever happens during a write, none of them is
\* ever left truncated or partly written.
C16_NeverPartial ==
    /\ ctxFile.state # "partial"
    /\ \A p \in OutputPaths : outFiles[p].state # "partial"
    /\ \A name \in DOMAIN runsDir : runsDir[name].state # "partial"

-----------------------------------------------------------------------------
(* Properties of build_prompt, checked under SpecRender *)

SectionOrder == <<GoalField>> \o ListFields

\* where a line is among the lines
PositionsOf(lines, line) == {i \in 1..Len(lines) : lines[i] = line}

\* where each section's heading is among the lines
HeadingPositions(lines) ==
    [goal |-> PositionsOf(lines, Heading.goal),
     constraints |-> PositionsOf(lines, Heading.constraints),
     facts |-> PositionsOf(lines, Heading.facts),
     decisions |-> PositionsOf(lines, Heading.decisions),
     tool_outputs |-> PositionsOf(lines, Heading.tool_outputs),
     open_questions |-> PositionsOf(lines, Heading.open_questions)]

\* the one element of a set of one element
TheOnly(S) == CHOOSE x \in S : TRUE

\* every section's heading is among the lines once
OneHeadingEach(at) == \A f \in Range(SectionOrder) : Cardinality(at[f]) = 1

\* the prompt rendered last; rendered only grows, so that every prompt is the
\* last one in the state its rendering leads to
LastRendered == rendered[Len(rendered)]

\* C21: render layout.  In every rendered prompt the headings of goal,
\* constraints, facts, decisions, tool_outputs and open_questions come in
\* that order, and under the heading of each non-empty list there is one
\* bullet line per item, in the items' order, duplicates included, and then
\* the blank line that ends the section.
C21_RenderLayout ==
    rendered # <<>> =>
        LET r == LastRendered
            at == HeadingPositions(r.lines)
        IN /\ OneHeadingEach(at)
           /\ \A n \in 1..(Len(SectionOrder) - 1) :
                 TheOnly(at[SectionOrder[n]]) < TheOnly(at[SectionOrder[n + 1]])
           /\ \A f \in ListFieldSet :
                 r.context[f] # <<>> =>
                    /\ \A i \in 1..Len(r.context[f]) :
                          r.lines[TheOnly(at[f]) + i] = "- " \o r.context[f][i]
                    /\ r.lines[TheOnly(at[f]) + Len(r.context[f]) + 1] = ""

\* a Context whose facts are f2 then f1 has been rendered
C21_Witness ==
    \E k \in 1..Len(rendered) :
        /\ rendered[k].context.facts = <<"f2", "f1">>
        /\ \E i \in 1..(Len(rendered[k].lines) - 2) :
              /\ rendered[k].lines[i] = Heading.facts
              /\ rendered[k].lines[i + 1] = "- f2"
              /\ rendered[k].lines[i + 2] = "- f1"

\* C22: render placeholders.  In every rendered prompt the line under the
\* goal heading is "(not set)" when the goal is empty and the goal itself
\* otherwise; the section of an empty list is the one line "(none)"; and no
\* line of a non-empty list's section is "(none)".
C22_RenderPlaceholders ==
    rendered # <<>> =>
        LET r == LastRendered
            at == HeadingPositions(r.lines)
            goal == TheOnly(at[GoalField])
        IN /\ OneHeadingEach(at)
           /\ r.lines[goal + 1] =
                 (IF r.context.goal = "" THEN "(not set)" ELSE r.context.goal)
           /\ r.lines[goal + 2] = ""
           /\ \A f \in ListFieldSet :
                 IF r.context[f] = <<>>
                 THEN /\ r.lines[TheOnly(at[f]) + 1] = "(none)"
                      /\ r.lines[TheOnly(at[f]) + 2] = ""
                 ELSE \A i \in 1..Len(r.context[f]) :
                          r.lines[TheOnly(at[f]) + i] # "(none)"

\* the Context of no goal and no items has been rendered
C22_Witness ==
    \E k \in 1..Len(rendered) :
        /\ rendered[k].context = EmptyContext
        /\ \E i \in 1..Len(rendered[k].lines) : rendered[k].lines[i] = "(not set)"
        /\ Cardinality({i \in 1..Len(rendered[k].lines) :
                            rendered[k].lines[i] = "(none)"}) = Len(ListFields)

\* ---------------------------------------------------------------------------
\* Duplicates under merge_updates (SpecMerge)
\* ---------------------------------------------------------------------------

\* C29: duplicate-freeness is preserved by merge.  Each list field of the
\* context that holds no string twice holds no string twice in the Context
\* merge_updates returns, whatever the updates are, and again none in the
\* Context a second merge returns from the first one's result.
C29_DuplicateFree ==
    \A f \in ListFieldSet :
        NoDuplicates(inC[f]) =>
            /\ Merged => NoDuplicates(NewContext[f])
            /\ mpc = "again" => NoDuplicates(NewContext2[f])

\* updates that hold a new fact twice have been merged twice: the fact is
\* there once, and it is also a decision, the fields being apart
C29_Witness ==
    /\ mpc = "again"
    /\ inC.facts = <<"f1">>
    /\ inC.decisions = <<"f2">>
    /\ inU.facts = <<"f2", "f2">>
    /\ NewContext.facts = <<"f1", "f2">>
    /\ NewContext2.facts = <<"f1", "f2">>
    /\ NewContext2.decisions = <<"f2">>

\* ---------------------------------------------------------------------------
\* Properties of the document over time (SpecCli)
\* ---------------------------------------------------------------------------

\* the document in the context file
Document == The(ctxFile.data)

C28_ApplyRefusesInvalid ==
    [][\A p \in OutputPaths :
          /\ ctxFile.state = "complete"
          /\ outFiles[p].state = "complete"
          /\ The(outFiles[p].data).valid # Some(TRUE)
          => /\ cexit' = Exit("apply", 1, "Response file contains invalid data.")
             /\ cexit'.changes = EmptyDict
             /\ ctxFile' = ctxFile
             /\ ctxTmp' = ctxTmp]_vars

\* apply has refused a response file that has no valid flag and a parsed
\* section suggesting a fact the document does not have
C28_Witness ==
    /\ cexit = Exit("apply", 1, "Response file contains invalid data.")
    /\ ctxFile.state = "complete"
    /\ The(ctxFile.data).facts = <<"f1", "f2">>
    /\ \E p \in OutputPaths :
          /\ outFiles[p].state = "complete"
          /\ The(outFiles[p].data).valid = None
          /\ The(outFiles[p].data).parsed # None
          /\ The(The(outFiles[p].data).parsed).suggested_context_updates.facts
                = <<"f2", "f3">>

\* ---------------------------------------------------------------------------
\* Properties of the prompt hash (SpecRun)
\* ---------------------------------------------------------------------------

\* the run artifacts a step has written in full
ArtifactsWritten(dir, dir2) ==
    {The(dir2[n].data) : n \in {m \in DOMAIN dir2 :
                                  /\ dir2[m].state = "complete"
                                  /\ m \in DOMAIN dir => dir[m] # dir2[m]}}

\* a step that begins a call of run_completion after another call has ended
NextRunBegins == rpc = "done" /\ rpc' = "call"

\* C23: the prompt hash is a function of the context only.  When a call of
\* run_completion follows a call with a field-wise-equal context, its
\* prompt_hash is the earlier call's, whatever the two instructions, raw
\* responses, outcomes and times were; the hash is there before the provider
\* is called and does not change during the call; every run artifact written
\* records it; and the metadata a call returns carries it.
C23_PromptHashOfContext ==
    [][/\ NextRunBegins /\ rargs'.context = rargs.context =>
             rloc'.prompt_hash = rloc.prompt_hash
       /\ rpc' = "call" => rlog' = <<Event("build_prompt", TRUE, "")>>
       /\ rpc \notin {"idle", "done"} => rloc'.prompt_hash = rloc.prompt_hash
       /\ \A artifact \in ArtifactsWritten(runsDir, runsDir') :
             artifact.prompt_hash = rloc.prompt_hash
       /\ rresult' # rresult /\ rresult'.kind = "returned" =>
             The(rresult'.value)[2].prompt_hash = Some(rloc.prompt_hash)
      ]_vars

\* a second call has returned with its prompt_hash in the metadata, and the
\* artifact of an earlier call, whose response was not valid, has that hash
C23_Witness ==
    /\ nruns = 2
    /\ RunEnded
    /\ rresult.kind = "returned"
    /\ The(rresult.value)[2].prompt_hash = Some(rloc.prompt_hash)
    /\ ArtifactFile.state = "complete"
    /\ The(ArtifactFile.data).prompt_hash = rloc.prompt_hash
    /\ \E n \in DOMAIN runsDir :
          /\ n # ArtifactFilename(The(rloc.timestamp))
          /\ runsDir[n].state = "complete"
          /\ The(runsDir[n].data).prompt_hash = rloc.prompt_hash
          /\ ~The(runsDir[n].data).valid

\* ---------------------------------------------------------------------------
\* Properties of the records run_completion writes (SpecRun)
\* ---------------------------------------------------------------------------

\* a record says valid exactly when it has no error and has a parsed response,
\* and one that does not say valid has no parsed response
FlagConsistent(valid, parsed, error) ==
    /\ valid <=> (error = None /\ parsed # None)
    /\ ~valid => parsed = None

\* C25: validity flags of the written records.  In every response file and
\* every run artifact written in full, valid is true if and only if the error
\* is absent or null and a parsed response is attached, and no record has
\* valid false together with a parsed response.
C25_ValidityConsistent ==
    /\ \A p \in DOMAIN outFiles :
          outFiles[p].state = "complete" =>
             FlagConsistent(The(outFiles[p].data).valid = Some(TRUE),
                            The(outFiles[p].data).parsed,
                            The(outFiles[p].data).error)
    /\ \A n \in DOMAIN runsDir :
          runsDir[n].state = "complete" =>
             FlagConsistent(The(runsDir[n].data).valid,
                            The(runsDir[n].data).parsed_response,
                            The(runsDir[n].data).error)

\* C26: InvalidResponseError means invalid model output.  A call of
\* run_completion ends with InvalidResponseError only if the provider's raw
\* text fails JSON parsing or ModelResponse validation.
C26_InvalidMeansInvalid ==
    /\ RunEnded
    /\ rresult.kind = "raised"
    /\ The(rresult.exception).type = "InvalidResponseError"
    => ~Validation.ok

\* ---------------------------------------------------------------------------
\* Properties of the context file's text (SpecStore)
\* ---------------------------------------------------------------------------

\* C24: persistence round trip.  load_context of the file that save_context
\* has written gives a Context equal to the saved one field by field, the
\* order of every list kept, whatever quotes, backslashes, line breaks,
\* characters outside ASCII and empty strings its strings hold.
C24_RoundTrip ==
    ctxLoaded.called => ctxLoaded.context = Some(inC) /\ ctxLoaded.error = None

\* a Context with a quote and a backslash in its goal, a character outside
\* ASCII in an item, and an empty item has come back
C24_Witness ==
    /\ ctxLoaded.context = Some(inC)
    /\ inC.goal = <<Quote, Backslash>>
    /\ inC.facts = <<<<Quote, Backslash>>, <<NonAscii>>>>
    /\ inC.tool_outputs = <<<<>>>>
    /\ ctxTmp = NoFile

=============================================================================
